---- MODULE Spec2Model ----
(***************************************************************************)
(* File selection of crev: GetAllFilePaths of internal/files/reading.go    *)
(* (the revision with collectExplicitFiles, walkAndCollectPaths,           *)
(* isExcludedPath, shouldIncludePath, preprocessExcludePatterns and        *)
(* filterEmptyDirectories), its caller Bundle of cmd/bundle_cmd.go with    *)
(* the bundle command of cmd/bundle.go, and the concurrent reader          *)
(* GetContentMapOfFiles.                                                   *)
(*                                                                         *)
(* Strings are sequences of one-character strings, so that trimming,       *)
(* prefix tests, path cleaning and glob matching are computed character by *)
(* character as the Go code and its libraries compute them.                *)
(***************************************************************************)
EXTENDS Naturals, Sequences, FiniteSets, TLC

VARIABLES
    includePatterns,          \* argument: []string
    excludePatterns,          \* argument: []string
    explicitFiles,            \* argument: []string
    pc,                       \* position inside GetAllFilePaths
    processedExcludePatterns, \* result of preprocessExcludePatterns
    filePaths,                \* the slice being collected
    explicitPaths,            \* map[string]bool of collectExplicitFiles (its key set)
    seenPaths,                \* map[string]bool of walkAndCollectPaths (its key set)
    walkQueue,                \* entries filepath.WalkDir has still to visit, in order
    visited,                  \* history: paths the walk callback was called with
    finalPaths,               \* the list GetAllFilePaths returns
    callNo,                   \* 1 for the first call, 2 for a following call
    variant,                  \* how the second call's arguments differ from the first's
    firstResult,              \* the list the first call returned
    filesFlag,                \* bundle command: the values of --files
    includeFlag,              \* bundle command: the values of --include
    excludeFlag,              \* bundle command: the values of --exclude
    bundlePc,                 \* position inside RunE and Bundle
    bundleErr,                \* the error Bundle returned
    outputFile,               \* crev-project.txt in the output directory
    readPaths,                \* GetContentMapOfFiles: argument filePaths
    maxConcurrency,           \* GetContentMapOfFiles: argument maxConcurrency
    readerPc,                 \* position of the goroutine that runs GetContentMapOfFiles
    spawned,                  \* number of iterations its loop has made
    taskPc,                   \* position of the goroutine started for each path
    semaphore,                \* number of elements in the channel semaphore
    wg,                       \* counter of the sync.WaitGroup
    errChan,                  \* contents of the channel errChan, oldest first
    fileContentMap,           \* the sync.Map, as a set of <<key, value>>
    resultMap,                \* the map GetContentMapOfFiles returned
    resultErr                 \* the error GetContentMapOfFiles returned

cli == <<filesFlag, includeFlag, excludeFlag, bundlePc, bundleErr, outputFile>>

reader == <<readPaths, maxConcurrency, readerPc, spawned, taskPc, semaphore, wg,
            errChan, fileContentMap, resultMap, resultErr>>

vars == <<includePatterns, excludePatterns, explicitFiles, pc,
          processedExcludePatterns, filePaths, explicitPaths, seenPaths,
          walkQueue, visited, finalPaths, callNo, variant, firstResult,
          cli, reader>>

----------------------------------------------------------------------------
(* Bounds *)

\* Total number of entries of the three list arguments of one call.
MaxArgs == 3

\* Number of paths GetContentMapOfFiles is called with.
MaxRead == 3

\* Largest maxConcurrency GetContentMapOfFiles is called with.
MaxLimit == 2

----------------------------------------------------------------------------
(* Strings *)

Slash == <<"/">>
Dot == <<".">>
DotDot == <<".", ".">>

Range(s) == {s[i] : i \in 1..Len(s)}

\* strings.HasPrefix
HasPrefix(s, prefix) ==
    Len(prefix) <= Len(s) /\ SubSeq(s, 1, Len(prefix)) = prefix

\* strings.TrimRight(s, cutset)
RECURSIVE TrimRight(_, _)
TrimRight(s, cutset) ==
    IF s # <<>> /\ s[Len(s)] \in cutset
    THEN TrimRight(SubSeq(s, 1, Len(s) - 1), cutset)
    ELSE s

\* The elements of a path between its separators (strings.Split on "/").
RECURSIVE SplitFrom(_, _, _)
SplitFrom(s, i, cur) ==
    IF i > Len(s) THEN <<cur>>
    ELSE IF s[i] = "/" THEN <<cur>> \o SplitFrom(s, i + 1, <<>>)
    ELSE SplitFrom(s, i + 1, Append(cur, s[i]))

Split(s) == SplitFrom(s, 1, <<>>)

RECURSIVE JoinElems(_)
JoinElems(elems) ==
    IF elems = <<>> THEN <<>>
    ELSE IF Len(elems) = 1 THEN elems[1]
    ELSE elems[1] \o Slash \o JoinElems(Tail(elems))

IsAbs(p) == p # <<>> /\ p[1] = "/"

\* filepath.Clean's element pass: "" and "." are dropped, ".." removes the element
\* before it (and is dropped at the top of a rooted path, kept in a relative one).
RECURSIVE CleanElems(_, _, _)
CleanElems(elems, out, rooted) ==
    IF elems = <<>> THEN out
    ELSE LET e == Head(elems) IN
         IF e = <<>> \/ e = Dot THEN CleanElems(Tail(elems), out, rooted)
         ELSE IF e = DotDot THEN
              IF out # <<>> /\ out[Len(out)] # DotDot
              THEN CleanElems(Tail(elems), SubSeq(out, 1, Len(out) - 1), rooted)
              ELSE IF rooted THEN CleanElems(Tail(elems), out, rooted)
              ELSE CleanElems(Tail(elems), Append(out, e), rooted)
         ELSE CleanElems(Tail(elems), Append(out, e), rooted)

\* filepath.Clean
Clean(p) ==
    LET body == JoinElems(CleanElems(Split(p), <<>>, IsAbs(p)))
        res == IF IsAbs(p) THEN Slash \o body ELSE body
    IN IF res = <<>> THEN Dot ELSE res

\* filepath.Join(a, b): the non-empty elements joined by the separator, cleaned.
Join(a, b) ==
    IF a = <<>> /\ b = <<>> THEN <<>>
    ELSE IF a = <<>> THEN Clean(b)
    ELSE IF b = <<>> THEN Clean(a)
    ELSE Clean(a \o Slash \o b)

RECURSIVE LastSlash(_, _)
LastSlash(p, i) ==
    IF i = 0 THEN 0 ELSE IF p[i] = "/" THEN i ELSE LastSlash(p, i - 1)

\* filepath.Dir: all but the last element, cleaned.
Dir(p) == Clean(SubSeq(p, 1, LastSlash(p, Len(p))))

\* filepath.ToSlash: os.PathSeparator is '/', nothing to replace.
ToSlash(p) == p

----------------------------------------------------------------------------
(* The filesystem the calls run against (unchanged during a run).          *)
(*                                                                         *)
(*   /r               the root directory, also the working directory       *)
(*   /r/b             regular file           ("build")                     *)
(*   /r/bd/           directory              ("build_dir")                 *)
(*   /r/bd/a/         directory                                            *)
(*   /r/bd/a/o.md     regular file                                         *)
(*   /r/bd/a/p.go     regular file                                         *)
(*   /r/e/            empty directory                                      *)
(*   /r/l             symbolic link to /r/bd/a                             *)
(*   /x               regular file outside the root directory              *)
(*   /u               regular file, not readable by the process            *)
(*   /ud/             directory, not readable by the process               *)

nR == <<"r">>
nB == <<"b">>
nBD == <<"b", "d">>
nA == <<"a">>
nOmd == <<"o", ".", "m", "d">>
nPgo == <<"p", ".", "g", "o">>
nE == <<"e">>
nL == <<"l">>
nZZ == <<"z", "z">>
nX == <<"x">>
nU == <<"u">>
nUD == <<"u", "d">>

rootArg == Slash \o nR
cwd == Slash \o nR

pB == rootArg \o Slash \o nB
pBD == rootArg \o Slash \o nBD
pA == pBD \o Slash \o nA
pOmd == pA \o Slash \o nOmd
pPgo == pA \o Slash \o nPgo
pE == rootArg \o Slash \o nE
pL == rootArg \o Slash \o nL
pZZ == rootArg \o Slash \o nZZ
pX == Slash \o nX
pU == Slash \o nU
pUD == Slash \o nUD

Node(path, kind, target, entries) ==
    [path |-> path, kind |-> kind, target |-> target, entries |-> entries]

\* entries: the names os.ReadDir returns, sorted by file name.
FSNodes ==
    { Node(Slash, "dir", <<>>, <<nR, nU, nUD, nX>>),
      Node(pX, "file", <<>>, <<>>),
      Node(pU, "file", <<>>, <<>>),
      Node(pUD, "dir", <<>>, <<>>),
      Node(rootArg, "dir", <<>>, <<nB, nBD, nE, nL>>),
      Node(pB, "file", <<>>, <<>>),
      Node(pBD, "dir", <<>>, <<nA>>),
      Node(pA, "dir", <<>>, <<nOmd, nPgo>>),
      Node(pOmd, "file", <<>>, <<>>),
      Node(pPgo, "file", <<>>, <<>>),
      Node(pE, "dir", <<>>, <<>>),
      Node(pL, "symlink", pA, <<>>) }

NoEnt == Node(<<>>, "noent", <<>>, <<>>)

\* os.Lstat: the entry itself, a symbolic link not followed.
Lstat(p) ==
    IF \E n \in FSNodes : n.path = p
    THEN CHOOSE n \in FSNodes : n.path = p
    ELSE NoEnt

Child(dir, name) == IF dir = Slash THEN dir \o name ELSE dir \o Slash \o name

\* Path resolution of the kernel: every element is looked up in the directory
\* reached so far; a symbolic link is replaced by its target.
RECURSIVE Resolve(_, _)
Resolve(cur, elems) ==
    IF elems = <<>> THEN Lstat(cur)
    ELSE LET n == Lstat(Child(cur, Head(elems))) IN
         IF Lstat(cur).kind # "dir" \/ n.kind = "noent" THEN NoEnt
         ELSE IF n.kind = "symlink"
              THEN Resolve(Slash, CleanElems(Split(n.target), <<>>, TRUE) \o Tail(elems))
              ELSE Resolve(n.path, Tail(elems))

\* os.Stat of an absolute path: symbolic links followed; kind "noent" when it fails.
Stat(p) == Resolve(Slash, CleanElems(Split(p), <<>>, TRUE))

StatOk(p) == Stat(p).kind # "noent"
IsDir(p) == Stat(p).kind = "dir"

\* The entries whose mode gives the process no read permission.
NoPermission == {pU, pUD}

\* The error of os.Stat for an absolute path: nil, ENOENT when an element of the
\* path does not exist, EACCES when the path leads through a directory the
\* process may not search.
StatErr(p) ==
    IF StatOk(p) THEN "nil"
    ELSE IF \E d \in NoPermission : IsDir(d) /\ HasPrefix(Clean(p), d \o Slash)
         THEN "permission"
         ELSE "noent"

\* What the regular files hold.
FileData(p) ==
    CASE p = pB -> "build"
      [] p = pOmd -> "# o"
      [] p = pPgo -> "package p"
      [] p = pX -> "x"
      [] OTHER -> "u"

\* filepath.Abs: an absolute path is cleaned, a relative one joined to the
\* working directory.
Abs(p) == IF IsAbs(p) THEN Clean(p) ELSE Join(cwd, p)

\* filepath.Rel(base, target) for the targets the walk passes: base itself or a
\* path WalkDir built by appending names to base.
Rel(base, target) ==
    IF target = base THEN Dot
    ELSE SubSeq(target, Len(base) + 2, Len(target))

----------------------------------------------------------------------------
(* doublestar.PathMatch (github.com/bmatcuk/doublestar/v4), for patterns   *)
(* made of literal characters, '?', '*' and '**': '*' matches a run of     *)
(* characters without a separator, '**' standing as a whole element        *)
(* matches zero or more elements, and a '**' that is not a whole element   *)
(* acts as a single '*'.                                                   *)

\* isZeroLengthPattern: the rest of a pattern that matches the empty rest of a name.
IsZeroLengthPattern(p) ==
    p \in { <<>>, <<"*">>, <<"*", "*">>, <<"/", "*", "*">>,
            <<"*", "*", "/">>, <<"/", "*", "*", "/">> }

\* startOfSegment: the pattern position follows a separator or is the first.
RECURSIVE Match(_, _, _)
Match(p, n, startOfSegment) ==
    IF n = <<>> THEN IsZeroLengthPattern(p)
    ELSE IF p = <<>> THEN FALSE
    ELSE IF p[1] = "*" THEN
        LET dbl == Len(p) >= 2 /\ p[2] = "*"
            rest == IF dbl THEN SubSeq(p, 3, Len(p)) ELSE Tail(p)
        IN IF dbl /\ startOfSegment /\ rest = <<>> THEN TRUE
           ELSE IF dbl /\ startOfSegment /\ rest[1] = "/" THEN
                \/ Match(Tail(rest), n, TRUE)
                \/ \E i \in 1..Len(n) :
                      n[i] = "/" /\ Match(Tail(rest), SubSeq(n, i + 1, Len(n)), TRUE)
           ELSE \E k \in 0..Len(n) :
                   /\ \A j \in 1..k : n[j] # "/"
                   /\ Match(rest, SubSeq(n, k + 1, Len(n)), FALSE)
    ELSE IF p[1] = "?" THEN n[1] # "/" /\ Match(Tail(p), Tail(n), FALSE)
    ELSE p[1] = n[1] /\ Match(Tail(p), Tail(n), p[1] = "/")

PathMatch(pattern, name) == Match(pattern, name, TRUE)

\* doublestar.ValidatePattern, for patterns without escapes and alternatives: a
\* '[' opens a character class that a later ']' has to close. PathMatch returns
\* ErrBadPattern for a pattern that is not valid, whatever the name; Match above
\* gives the result for the valid patterns without character classes.
ValidatePattern(p) ==
    \A i \in 1..Len(p) : p[i] = "[" => \E j \in (i + 1)..Len(p) : p[j] = "]"

\* A loop that gives patterns to PathMatch in order and ends at the first error
\* or the first match: how it ends for name.
RECURSIVE matchInOrder(_, _)
matchInOrder(patterns, name) ==
    IF patterns = <<>> THEN "none"
    ELSE IF ~ValidatePattern(Head(patterns)) THEN "err"
    ELSE IF PathMatch(Head(patterns), name) THEN "match"
    ELSE matchInOrder(Tail(patterns), name)

----------------------------------------------------------------------------
(* The functions of reading.go *)

\* Variant of preprocessExcludePatterns: trailing separators are not trimmed.
RECURSIVE preprocessNoTrim(_, _)
preprocessNoTrim(root, patterns) ==
    IF patterns = <<>> THEN <<>>
    ELSE LET pattern == Head(patterns)
             fullPath == Join(root, pattern)
             rest == preprocessNoTrim(root, Tail(patterns))
         IN IF pattern = <<>> THEN rest
            ELSE IF StatOk(fullPath) /\ IsDir(fullPath)
                 THEN <<pattern, pattern \o <<"/", "*", "*">> >> \o rest
                 ELSE <<pattern>> \o rest

\* Variant of preprocessExcludePatterns: os.Stat is not asked, "/**" is never added.
RECURSIVE preprocessNoStat(_, _)
preprocessNoStat(root, patterns) ==
    IF patterns = <<>> THEN <<>>
    ELSE LET pattern == Head(patterns)
             cleanPattern == TrimRight(pattern, {"/", "\\"})
             rest == preprocessNoStat(root, Tail(patterns))
         IN IF pattern = <<>> THEN rest ELSE <<cleanPattern>> \o rest

\* preprocessExcludePatterns: the effective patterns, in input order.
RECURSIVE preprocessExcludePatterns(_, _)
preprocessExcludePatterns(root, patterns) ==
    IF patterns = <<>> THEN <<>>
    ELSE LET pattern == Head(patterns)
             cleanPattern == TrimRight(pattern, {"/", "\\"})
             fullPath == Join(root, cleanPattern)
             rest == preprocessExcludePatterns(root, Tail(patterns))
         IN IF pattern = <<>> THEN rest
            ELSE IF StatOk(fullPath) /\ IsDir(fullPath)
                 THEN <<cleanPattern, cleanPattern \o <<"/", "*", "*">> >> \o rest
                 ELSE <<cleanPattern>> \o rest

\* Variant of collectExplicitFiles: a file os.Stat does not find is an error.
RECURSIVE collectExplicitStrict(_, _)
collectExplicitStrict(absRoot, files) ==
    IF files = <<>> THEN [filePaths |-> <<>>, explicitPaths |-> {}, err |-> "nil"]
    ELSE LET absPath == Abs(files[Len(files)])
             before == collectExplicitStrict(absRoot, SubSeq(files, 1, Len(files) - 1))
         IN IF before.err # "nil" THEN before
            ELSE IF StatOk(absPath)
            THEN [filePaths |-> Append(before.filePaths, absPath),
                  explicitPaths |-> before.explicitPaths \cup {absPath},
                  err |-> "nil"]
            ELSE [filePaths |-> <<>>, explicitPaths |-> {}, err |-> "stat"]

\* collectExplicitFiles: the seeded list, the key set of the explicit map and the
\* error (filepath.Abs cannot fail here: the working directory exists).
RECURSIVE collectExplicitFiles(_, _)
collectExplicitFiles(absRoot, files) ==
    IF files = <<>> THEN [filePaths |-> <<>>, explicitPaths |-> {}, err |-> "nil"]
    ELSE LET absPath == Abs(files[Len(files)])
             before == collectExplicitFiles(absRoot, SubSeq(files, 1, Len(files) - 1))
         IN IF StatOk(absPath)
            THEN [filePaths |-> Append(before.filePaths, absPath),
                  explicitPaths |-> before.explicitPaths \cup {absPath},
                  err |-> "nil"]
            ELSE before

\* Variant of walkInit: the walk starts from an empty list instead of the copy.
walkInitEmpty(initialFiles) == <<>>

\* walkAndCollectPaths, before the walk: the copy of the seeded list.
walkInit(initialFiles) == initialFiles

\* Variant of matchesAny: a pattern also matches the names it is a prefix of.
matchesAnyPrefix(patterns, name) ==
    \E i \in 1..Len(patterns) :
        PathMatch(patterns[i], name) \/ HasPrefix(name, patterns[i])

\* The loop over processedExcludePatterns for one dirPath: does a pattern match?
matchesAny(patterns, name) ==
    \E i \in 1..Len(patterns) : PathMatch(patterns[i], name)

\* Variant of rangeHasPrefix: the loop ends after the first key the range yields.
rangeFirstOnly(explicitOrder, absDir) ==
    explicitOrder # <<>> /\ HasPrefix(explicitOrder[1], absDir \o Slash)

\* The loop "for explicit := range explicitPaths" with its break; explicitOrder is
\* the order in which this range statement yields the keys of the map.
rangeHasPrefix(explicitOrder, absDir) ==
    \E i \in 1..Len(explicitOrder) : HasPrefix(explicitOrder[i], absDir \o Slash)

\* isExcludedPath: relPath and then each of its parents, up to ".".
RECURSIVE isExcludedPath(_, _, _, _)
isExcludedPath(absRoot, dirPath, patterns, explicitOrder) ==
    IF dirPath = Dot
    THEN [excluded |-> FALSE, isParentOfExplicit |-> FALSE]
    ELSE IF matchesAny(patterns, dirPath)
         THEN [excluded |-> TRUE,
               isParentOfExplicit |-> rangeHasPrefix(explicitOrder, Join(absRoot, dirPath))]
         ELSE isExcludedPath(absRoot, Dir(dirPath), patterns, explicitOrder)

\* isExcludedPath, the error result: does a PathMatch fail before a pattern
\* matches dirPath or one of its parents?
RECURSIVE isExcludedPathErr(_, _)
isExcludedPathErr(dirPath, patterns) ==
    IF dirPath = Dot THEN FALSE
    ELSE LET end == matchInOrder(patterns, dirPath)
         IN IF end = "err" THEN TRUE
            ELSE IF end = "match" THEN FALSE
            ELSE isExcludedPathErr(Dir(dirPath), patterns)

\* shouldIncludePath, the error result: does a PathMatch fail before the break?
shouldIncludePathErr(relPath, patterns) == matchInOrder(patterns, relPath) = "err"

\* Variant of shouldIncludePath: every path passes, whatever the patterns.
shouldIncludeAlways(relPath, patterns) == TRUE

\* Variant of shouldIncludePath: include starts false also for an empty list.
shouldIncludeMatchOnly(relPath, patterns) ==
    \E i \in 1..Len(patterns) : PathMatch(patterns[i], relPath)

\* shouldIncludePath
shouldIncludePath(relPath, patterns) ==
    IF Len(patterns) = 0 THEN TRUE
    ELSE \E i \in 1..Len(patterns) : PathMatch(patterns[i], relPath)

\* Variant of walkFn: an excluded directory is skipped also when it is the parent
\* of an explicit path.
walkFnSkipExcluded(absRoot, path, isDir, explicitOrder) ==
    LET relPath == ToSlash(Rel(absRoot, path))
        ex == isExcludedPath(absRoot, relPath, processedExcludePatterns, explicitOrder)
    IN IF path = absRoot THEN [ret |-> "nil", add |-> FALSE]
       ELSE IF path \in seenPaths THEN [ret |-> "nil", add |-> FALSE]
       ELSE IF isExcludedPathErr(relPath, processedExcludePatterns)
            THEN [ret |-> "err", add |-> FALSE]
       ELSE IF ex.excluded
            THEN [ret |-> IF isDir THEN "SkipDir" ELSE "nil", add |-> FALSE]
       ELSE IF shouldIncludePathErr(relPath, includePatterns)
            THEN [ret |-> "err", add |-> FALSE]
       ELSE [ret |-> "nil", add |-> shouldIncludePath(relPath, includePatterns)]

\* Variant of walkFn: a directory that fails the include test is skipped.
walkFnPruneInclude(absRoot, path, isDir, explicitOrder) ==
    LET relPath == ToSlash(Rel(absRoot, path))
        ex == isExcludedPath(absRoot, relPath, processedExcludePatterns, explicitOrder)
        include == shouldIncludePath(relPath, includePatterns)
    IN IF path = absRoot THEN [ret |-> "nil", add |-> FALSE]
       ELSE IF path \in seenPaths THEN [ret |-> "nil", add |-> FALSE]
       ELSE IF isExcludedPathErr(relPath, processedExcludePatterns)
            THEN [ret |-> "err", add |-> FALSE]
       ELSE IF ex.excluded /\ ~ex.isParentOfExplicit
            THEN [ret |-> IF isDir THEN "SkipDir" ELSE "nil", add |-> FALSE]
       ELSE IF isDir /\ ex.excluded /\ ex.isParentOfExplicit
            THEN [ret |-> "nil", add |-> FALSE]
       ELSE IF shouldIncludePathErr(relPath, includePatterns)
            THEN [ret |-> "err", add |-> FALSE]
       ELSE [ret |-> IF isDir /\ ~include THEN "SkipDir" ELSE "nil", add |-> include]

\* The callback walkAndCollectPaths gives to filepath.WalkDir, for entry path
\* whose DirEntry says isDir: what it returns (nil, SkipDir or the error of a
\* PathMatch) and whether it appends path.
walkFn(absRoot, path, isDir, explicitOrder) ==
    LET relPath == ToSlash(Rel(absRoot, path))
        ex == isExcludedPath(absRoot, relPath, processedExcludePatterns, explicitOrder)
    IN IF path = absRoot THEN [ret |-> "nil", add |-> FALSE]
       ELSE IF path \in seenPaths THEN [ret |-> "nil", add |-> FALSE]
       ELSE IF isExcludedPathErr(relPath, processedExcludePatterns)
            THEN [ret |-> "err", add |-> FALSE]
       ELSE IF ex.excluded /\ ~ex.isParentOfExplicit
            THEN [ret |-> IF isDir THEN "SkipDir" ELSE "nil", add |-> FALSE]
       ELSE IF isDir /\ ex.excluded /\ ex.isParentOfExplicit
            THEN [ret |-> "nil", add |-> FALSE]
       ELSE IF shouldIncludePathErr(relPath, includePatterns)
            THEN [ret |-> "err", add |-> FALSE]
       ELSE [ret |-> "nil", add |-> shouldIncludePath(relPath, includePatterns)]

\* Variant of walkError: the paths collected before the error are returned.
walkErrorPartial(paths) == paths

\* walkAndCollectPaths after WalkDir: if err != nil { return nil, err }, and
\* GetAllFilePaths passes the nil list and the error on.
walkError(paths) == <<>>

\* filterEmptyDirectories, second loop: the parents a kept file marks.
RECURSIVE parentsOf(_)
parentsOf(dir) ==
    IF dir = Dot \/ dir = Slash THEN {}
    ELSE {dir} \cup parentsOf(Dir(dir))

directoryHasIncludedFile(paths) ==
    UNION { parentsOf(Dir(paths[i])) :
              i \in {j \in 1..Len(paths) : StatOk(paths[j]) /\ ~IsDir(paths[j])} }

\* filterEmptyDirectories, third loop.
RECURSIVE keepMarked(_, _)
keepMarked(paths, marked) ==
    IF paths = <<>> THEN <<>>
    ELSE LET p == Head(paths)
             rest == keepMarked(Tail(paths), marked)
         IN IF ~StatOk(p) THEN <<p>> \o rest
            ELSE IF IsDir(p) THEN (IF p \in marked THEN <<p>> \o rest ELSE rest)
            ELSE <<p>> \o rest

\* Variant of filterEmptyDirectories: nothing is removed.
filterKeepAll(paths) == paths

\* filterEmptyDirectories, first loop: every element of the slice is replaced by
\* its absolute path, in place.
absolutePaths(paths) == [i \in 1..Len(paths) |-> Abs(paths[i])]

\* Variant of filterEmptyDirectories: a path os.Stat fails for is dropped too.
filterDropMissing(paths) ==
    SelectSeq(keepMarked(absolutePaths(paths),
                         directoryHasIncludedFile(absolutePaths(paths))),
              StatOk)

\* filterEmptyDirectories
filterEmptyDirectories(paths) ==
    LET absPaths == absolutePaths(paths)
    IN keepMarked(absPaths, directoryHasIncludedFile(absPaths))

----------------------------------------------------------------------------
(* The arguments the calls are made with *)

IncludePool ==
    { <<"*", "*", "/", "*", ".", "g", "o">>,     \* "**/*.go"
      <<"*", "*", "/", "*">>,                    \* "**/*"
      nBD }                                      \* "bd"

ExcludePool ==
    { nB,                                        \* "b"    a file
      nBD,                                       \* "bd"   a directory
      nL,                                        \* "l"    a symbolic link
      nZZ,                                       \* "zz"   nothing
      <<>>,                                      \* ""     the empty pattern
      <<"*", "*", "/", "a">>,                    \* "**/a"
      <<"*", "*", "/", "*", ".", "*">> }         \* "**/*.*"

ExplicitPool ==
    { pB,                                        \* "/r/b"
      nB,                                        \* "b", relative to the working directory
      pOmd,                                      \* "/r/bd/a/o.md"
      pL \o Slash \o nPgo,                       \* "/r/l/p.go", through the link
      pBD,                                       \* "/r/bd", a directory
      pZZ }                                      \* "/r/zz", missing

SeqsUpTo(S, n) == UNION { [1..k -> S] : k \in 0..n }

\* The orders in which a range over a map with key set S can yield its keys.
Orders(S) ==
    { f \in [1..Cardinality(S) -> S] : \A i, j \in 1..Cardinality(S) : f[i] = f[j] => i = j }

absRoot == Abs(rootArg)

----------------------------------------------------------------------------
(* One call of GetAllFilePaths, step by step *)

NoError == [msg |-> "nil", files |-> <<>>]
NoFile == [written |-> FALSE, tree |-> <<>>, content |-> {}]
NilMap == [isNil |-> TRUE, entries |-> {}]
NilErr == [op |-> "nil", path |-> <<>>]

\* The bundle command is not what makes the call.
NoCli ==
    /\ filesFlag = <<>>
    /\ includeFlag = <<>>
    /\ excludeFlag = <<>>
    /\ bundlePc = "none"
    /\ bundleErr = NoError
    /\ outputFile = NoFile

\* GetContentMapOfFiles has not been called.
NoReader ==
    /\ readPaths = <<>>
    /\ maxConcurrency = 0
    /\ readerPc = "none"
    /\ spawned = 0
    /\ taskPc = <<>>
    /\ semaphore = 0
    /\ wg = 0
    /\ errChan = <<>>
    /\ fileContentMap = {}
    /\ resultMap = NilMap
    /\ resultErr = NilErr

\* The locals of GetAllFilePaths before its first statement, at position at.
Locals(at) ==
    /\ pc = at
    /\ processedExcludePatterns = <<>>
    /\ filePaths = <<>>
    /\ explicitPaths = {}
    /\ seenPaths = {}
    /\ walkQueue = <<>>
    /\ visited = {}
    /\ finalPaths = <<>>
    /\ callNo = 1
    /\ variant = [kind |-> "first", pattern |-> <<>>]
    /\ firstResult = <<>>

Init ==
    /\ includePatterns \in SeqsUpTo(IncludePool, MaxArgs)
    /\ excludePatterns \in SeqsUpTo(ExcludePool, MaxArgs - Len(includePatterns))
    /\ explicitFiles \in
          SeqsUpTo(ExplicitPool, MaxArgs - Len(includePatterns) - Len(excludePatterns))
    /\ Locals("preprocess")
    /\ NoCli
    /\ NoReader

args == <<includePatterns, excludePatterns, explicitFiles>>
calls == <<callNo, variant, firstResult>>

\* GetAllFilePaths: processedExcludePatterns := preprocessExcludePatterns(...)
Preprocess ==
    /\ pc = "preprocess"
    /\ processedExcludePatterns' = preprocessExcludePatterns(absRoot, excludePatterns)
    /\ pc' = "explicit"
    /\ UNCHANGED <<args, calls, filePaths, explicitPaths, seenPaths, walkQueue,
                   visited, finalPaths, cli, reader>>

\* GetAllFilePaths: filePaths, explicitPaths, err := collectExplicitFiles(...);
\* if err != nil { return nil, err }
CollectExplicit ==
    /\ pc = "explicit"
    /\ LET r == collectExplicitFiles(absRoot, explicitFiles) IN
          /\ filePaths' = r.filePaths
          /\ explicitPaths' = r.explicitPaths
          /\ pc' = IF r.err = "nil" THEN "startwalk" ELSE "error"
    /\ UNCHANGED <<args, calls, processedExcludePatterns, seenPaths, walkQueue,
                   visited, finalPaths, cli, reader>>

\* walkAndCollectPaths up to the call of filepath.WalkDir
StartWalk ==
    /\ pc = "startwalk"
    /\ filePaths' = walkInit(filePaths)
    /\ seenPaths' = Range(walkInit(filePaths))
    /\ walkQueue' = <<absRoot>>
    /\ pc' = "walk"
    /\ UNCHANGED <<args, calls, processedExcludePatterns, explicitPaths, visited,
                   finalPaths, cli, reader>>

\* filepath.WalkDir calls the callback with the next entry, and reads the entry's
\* directory unless the callback returned SkipDir; an error the callback returns
\* ends the walk and the call.
Visit ==
    /\ pc = "walk"
    /\ walkQueue # <<>>
    /\ LET path == Head(walkQueue)
           d == Lstat(path)
           isDir == d.kind = "dir"
       IN \E explicitOrder \in Orders(explicitPaths) :
            LET r == walkFn(absRoot, path, isDir, explicitOrder)
                children == IF isDir /\ r.ret = "nil"
                            THEN [i \in 1..Len(d.entries) |-> Child(path, d.entries[i])]
                            ELSE <<>>
            IN /\ filePaths' = IF r.add THEN Append(filePaths, path) ELSE filePaths
               /\ seenPaths' = IF r.add THEN seenPaths \cup {path} ELSE seenPaths
               /\ walkQueue' = children \o Tail(walkQueue)
               /\ visited' = visited \cup {path}
               /\ pc' = IF r.ret = "err" THEN "error" ELSE pc
               /\ finalPaths' = IF r.ret = "err" THEN walkError(filePaths) ELSE finalPaths
    /\ UNCHANGED <<args, calls, processedExcludePatterns, explicitPaths, cli, reader>>

\* The walk is over: finalPaths := filterEmptyDirectories(collectedPaths); return.
Return ==
    /\ pc = "walk"
    /\ walkQueue = <<>>
    /\ finalPaths' = filterEmptyDirectories(filePaths)
    /\ pc' = "done"
    /\ UNCHANGED <<args, calls, processedExcludePatterns, filePaths, explicitPaths,
                   seenPaths, walkQueue, visited, cli, reader>>

Next == Preprocess \/ CollectExplicit \/ StartWalk \/ Visit \/ Return

Spec == Init /\ [][Next]_vars

----------------------------------------------------------------------------
(* Calls that can fail: a pattern the matcher rejects, and a filesystem    *)
(* error that filepath.WalkDir reports to the callback.                    *)

BadPattern == <<"[">>

IncludeErrPool == { nB, <<"*", "*">>, BadPattern }
ExcludeErrPool == { nB, nBD, <<"*", "*">>, BadPattern }
ExplicitErrPool == { pB, pOmd }

InitErr ==
    /\ includePatterns \in SeqsUpTo(IncludeErrPool, MaxArgs - 1)
    /\ excludePatterns \in SeqsUpTo(ExcludeErrPool, MaxArgs - 1)
    /\ explicitFiles \in
          SeqsUpTo(ExplicitErrPool,
                   IF Len(includePatterns) + Len(excludePatterns) < MaxArgs THEN 1 ELSE 0)
    /\ Locals("preprocess")
    /\ NoCli
    /\ NoReader

\* filepath.WalkDir could not lstat the next entry or read it as a directory
\* (an I/O error, an entry removed meanwhile): it calls the callback with
\* err != nil, the callback returns the error at once and the walk ends.
WalkError ==
    /\ pc = "walk"
    /\ walkQueue # <<>>
    /\ visited' = visited \cup {Head(walkQueue)}
    /\ walkQueue' = Tail(walkQueue)
    /\ pc' = "error"
    /\ finalPaths' = walkError(filePaths)
    /\ UNCHANGED <<args, calls, processedExcludePatterns, filePaths, explicitPaths,
                   seenPaths, cli, reader>>

NextErr == Preprocess \/ CollectExplicit \/ StartWalk \/ Visit \/ Return \/ WalkError

SpecErr == InitErr /\ [][NextErr]_vars

----------------------------------------------------------------------------
(* Calls whose explicitFiles name a path os.Stat may not look up.          *)

ExplicitAccessPool ==
    { pUD \o Slash \o <<"f">>,                   \* "/ud/f", below a directory without permission
      pB,                                        \* "/r/b"
      pZZ }                                      \* "/r/zz", missing

InitAccess ==
    /\ explicitFiles \in SeqsUpTo(ExplicitAccessPool, MaxArgs - 1)
    /\ includePatterns \in SeqsUpTo({ <<"*", "*", "/", "*", ".", "g", "o">> }, 1)
    /\ excludePatterns \in SeqsUpTo({nBD}, 1)
    /\ Locals("preprocess")
    /\ NoCli
    /\ NoReader

SpecAccess == InitAccess /\ [][Next]_vars

----------------------------------------------------------------------------
(* Calls whose exclude patterns end in separators, as the cases of         *)
(* TestPreprocessExcludePatterns do.                                       *)

ExcludePrePool ==
    { <<>>,                                      \* ""
      nBD \o <<"/">>,                            \* "bd/"   a directory
      nBD \o <<"\\">>,                           \* "bd\"   a directory
      nB \o <<"/", "/">>,                        \* "b//"   a file
      nZZ \o <<"/">>,                            \* "zz/"   nothing
      nL,                                        \* "l"     a link to a directory
      <<"/">> }                                  \* "/"     separators only

InitPre ==
    /\ includePatterns = <<>>
    /\ excludePatterns \in SeqsUpTo(ExcludePrePool, MaxArgs)
    /\ explicitFiles = <<>>
    /\ Locals("preprocess")
    /\ NoCli
    /\ NoReader

SpecPre == InitPre /\ [][Next]_vars

----------------------------------------------------------------------------
(* Calls whose patterns tell files of one directory apart, as the tests of *)
(* reading_test.go do.                                                     *)

IncludeSelPool ==
    { <<"*", "*", "/", "*", ".", "g", "o">>,     \* "**/*.go"
      <<"*", "*", "/", "*", ".", "m", "d">>,     \* "**/*.md"
      nB }                                       \* "b"

ExcludeSelPool ==
    { <<"*", "*", "/", "*", ".", "m", "d">>,     \* "**/*.md"
      <<"*", "*", "/", "*", ".", "g", "o">>,     \* "**/*.go"
      nB,                                        \* "b"
      nE }                                       \* "e", an empty directory

InitSel ==
    /\ includePatterns \in SeqsUpTo(IncludeSelPool, MaxArgs - 1)
    /\ excludePatterns \in SeqsUpTo(ExcludeSelPool, MaxArgs - 1)
    /\ explicitFiles = <<>>
    /\ Locals("preprocess")
    /\ NoCli
    /\ NoReader

SpecSel == InitSel /\ [][Next]_vars

----------------------------------------------------------------------------
(* A caller that calls GetAllFilePaths a second time, as the tests of the  *)
(* repository do: every local of the first call is gone, the filesystem is *)
(* the same.                                                               *)

NewCall(kind, pattern, excludes, explicits) ==
    /\ pc = "done"
    /\ callNo = 1
    /\ callNo' = 2
    /\ variant' = [kind |-> kind, pattern |-> pattern]
    /\ firstResult' = finalPaths
    /\ excludePatterns' = excludes
    /\ explicitFiles' = explicits
    /\ pc' = "preprocess"
    /\ processedExcludePatterns' = <<>>
    /\ filePaths' = <<>>
    /\ explicitPaths' = {}
    /\ seenPaths' = {}
    /\ walkQueue' = <<>>
    /\ visited' = {}
    /\ finalPaths' = <<>>
    /\ UNCHANGED <<includePatterns, cli, reader>>

\* The same arguments again.
CallAgain == NewCall("same", <<>>, excludePatterns, explicitFiles)

\* The same arguments, but for one exclude pattern that gets a trailing '/'.
CallAgainTrailingSlash ==
    \E i \in 1..Len(excludePatterns) :
        NewCall("slash", excludePatterns[i],
                [excludePatterns EXCEPT ![i] = excludePatterns[i] \o Slash],
                explicitFiles)

NextPair ==
    \/ Preprocess \/ CollectExplicit \/ StartWalk \/ Visit \/ Return
    \/ CallAgain \/ CallAgainTrailingSlash

SpecPair == Init /\ [][NextPair]_vars

\* explicitFiles without its i-th entry
WithoutEntry(files, i) == SubSeq(files, 1, i - 1) \o SubSeq(files, i + 1, Len(files))

\* The same arguments, but for one entry of explicitFiles that is left out.
CallAgainWithoutEntry ==
    \E i \in 1..Len(explicitFiles) :
        NewCall("drop", explicitFiles[i], excludePatterns, WithoutEntry(explicitFiles, i))

NextDrop ==
    \/ Preprocess \/ CollectExplicit \/ StartWalk \/ Visit \/ Return
    \/ CallAgainWithoutEntry

\* The calls that are repeated without an entry: any explicitFiles, few patterns.
InitDrop ==
    /\ explicitFiles \in SeqsUpTo(ExplicitPool, MaxArgs)
    /\ includePatterns \in
          SeqsUpTo({ <<"*", "*", "/", "*", ".", "g", "o">> }, MaxArgs - Len(explicitFiles))
    /\ excludePatterns \in
          SeqsUpTo({nBD, nL}, MaxArgs - Len(explicitFiles) - Len(includePatterns))
    /\ Locals("preprocess")
    /\ NoCli
    /\ NoReader

SpecDrop == InitDrop /\ [][NextDrop]_vars

----------------------------------------------------------------------------
(* Calls whose explicitFiles name the root directory and paths outside it *)

AnywherePool ==
    { rootArg,                                   \* "/r", the root directory
      pX,                                        \* "/x", a file outside the root
      DotDot \o Slash \o nX,                     \* "../x", the same file
      pOmd }                                     \* "/r/bd/a/o.md"

InitAnywhere ==
    /\ explicitFiles \in SeqsUpTo(AnywherePool, MaxArgs)
    /\ includePatterns \in SeqsUpTo(IncludePool, MaxArgs - Len(explicitFiles))
    /\ excludePatterns = <<>>
    /\ Locals("preprocess")
    /\ NoCli
    /\ NoReader

SpecAnywhere == InitAnywhere /\ [][Next]_vars

----------------------------------------------------------------------------
(* What one goroutine of GetContentMapOfFiles does with its path *)

ErrOf(op, p) == [op |-> op, path |-> p]

\* Variant of readTask: a directory is never stored.
readTaskFilesOnly(p) ==
    LET info == Stat(p) IN
    IF info.kind = "noent" THEN [err |-> ErrOf("stat", p), store |-> {}]
    ELSE IF info.kind # "dir"
         THEN IF info.path \in NoPermission
              THEN [err |-> ErrOf("open", p), store |-> {}]
              ELSE [err |-> NilErr, store |-> {<<p, FileData(info.path)>>}]
    ELSE IF info.path \in NoPermission
         THEN [err |-> ErrOf("readdir", p), store |-> {}]
         ELSE [err |-> NilErr, store |-> {}]

\* The body of the goroutine between taking and giving back its semaphore
\* element: the error it sends on errChan, or the pair it stores in the map.
readTask(p) ==
    LET info == Stat(p) IN
    IF info.kind = "noent" THEN [err |-> ErrOf("stat", p), store |-> {}]
    ELSE IF info.kind # "dir"
         THEN IF info.path \in NoPermission
              THEN [err |-> ErrOf("open", p), store |-> {}]
              ELSE [err |-> NilErr, store |-> {<<p, FileData(info.path)>>}]
    ELSE IF info.path \in NoPermission
         THEN [err |-> ErrOf("readdir", p), store |-> {}]
    ELSE IF Len(info.entries) = 0
         THEN [err |-> NilErr, store |-> {<<p, "empty directory">>}]
         ELSE [err |-> NilErr, store |-> {}]

\* sync.Map.Store of the pairs kv
Store(m, kv) == { e \in m : \A n \in kv : e[1] # n[1] } \cup kv

----------------------------------------------------------------------------
(* The bundle command: RunE of generateCmd (cmd/bundle.go) and Bundle       *)
(* (cmd/bundle_cmd.go)                                                      *)

specificPrefixesToIgnore == << Dot, <<"c", "r", "e", "v">> >>

specificExtensionsToIgnore ==
    << <<".", "j", "p", "e", "g">>,
       <<".", "j", "p", "g">>,
       <<".", "p", "n", "g">>,
       <<".", "g", "i", "f">>,
       <<".", "s", "v", "g">>,
       <<".", "i", "c", "o">>,
       <<".", "p", "d", "f">>,
       <<".", "w", "o", "f", "f">>,
       <<".", "w", "o", "f", "f", "2">>,
       <<".", "e", "o", "t">>,
       <<".", "t", "t", "f">>,
       <<".", "o", "t", "f">> >>

specificFilesToIgnore ==
    << <<"T", "h", "u", "m", "b", "s", ".", "d", "b">>,
       <<"p", "o", "e", "t", "r", "y", ".", "l", "o", "c", "k">>,
       <<"g", "o", ".", "m", "o", "d">>,
       <<"g", "o", ".", "s", "u", "m">> >>

\* DefaultBundleOptions().MaxConcurrency
DefaultMaxConcurrency == 100

\* appendDefaultExcludes
appendDefaultExcludes(patterns) ==
    patterns
    \o [i \in 1..(2 * Len(specificPrefixesToIgnore)) |->
          IF i % 2 = 1
          THEN <<"*", "*", "/">> \o specificPrefixesToIgnore[(i + 1) \div 2] \o <<"*">>
          ELSE specificPrefixesToIgnore[i \div 2] \o <<"*">>]
    \o [i \in 1..Len(specificExtensionsToIgnore) |->
          <<"*", "*", "/", "*">> \o specificExtensionsToIgnore[i]]
    \o [i \in 1..Len(specificFilesToIgnore) |->
          <<"*", "*", "/">> \o specificFilesToIgnore[i]]

\* RunE: the BundleOptions built from the flags.
runEOptions(files, includes, excludes) ==
    [ExplicitFiles |-> files,
     IncludePatterns |-> IF Len(files) > 0 THEN <<>>
                         ELSE IF Len(includes) > 0 THEN includes
                         ELSE << <<"*", "*", "/", "*">> >>,
     ExcludePatterns |-> excludes]

\* Variant of validateExplicitFiles: no file is reported missing.
validateNothing(files) == <<>>

\* validateExplicitFiles: missingFiles
RECURSIVE validateExplicitFiles(_)
validateExplicitFiles(files) ==
    IF files = <<>> THEN <<>>
    ELSE LET before == validateExplicitFiles(SubSeq(files, 1, Len(files) - 1))
             file == files[Len(files)]
         IN IF Stat(Abs(file)).kind = "noent" THEN Append(before, file) ELSE before

\* Variant of nothingFound: the length of the list is not looked at.
nothingFoundNever(paths) == FALSE

\* Bundle: if len(filePaths) == 0
nothingFound(paths) == Len(paths) = 0

FilesFlagPool ==
    { nB,                                        \* "b"
      nBD \o Slash \o nA \o Slash \o nOmd,       \* "bd/a/o.md"
      nZZ }                                      \* "zz", missing

IncludeFlagPool ==
    { <<"*", "*", "/", "*", ".", "g", "o">>,     \* "**/*.go"
      nZZ \o <<"/", "*", "*">> }                 \* "zz/**", matches nothing

ExcludeFlagPool ==
    { nBD,                                       \* "bd"
      <<"*", "*", "/", "*", ".", "m", "d">> }    \* "**/*.md"

InitBundle ==
    /\ filesFlag \in SeqsUpTo(FilesFlagPool, MaxArgs)
    /\ includeFlag \in SeqsUpTo(IncludeFlagPool, MaxArgs - Len(filesFlag))
    /\ excludeFlag \in SeqsUpTo(ExcludeFlagPool, MaxArgs - Len(filesFlag) - Len(includeFlag))
    /\ bundlePc = "flags"
    /\ bundleErr = NoError
    /\ outputFile = NoFile
    /\ includePatterns = <<>>
    /\ excludePatterns = <<>>
    /\ explicitFiles = <<>>
    /\ Locals("idle")
    /\ NoReader

selection == <<pc, processedExcludePatterns, filePaths, explicitPaths, seenPaths,
               walkQueue, visited, finalPaths>>

\* generateCmd.RunE up to its call of Bundle
RunE ==
    /\ bundlePc = "flags"
    /\ LET opts == runEOptions(filesFlag, includeFlag, excludeFlag) IN
          /\ explicitFiles' = opts.ExplicitFiles
          /\ includePatterns' = opts.IncludePatterns
          /\ excludePatterns' = opts.ExcludePatterns
    /\ bundlePc' = "bundle"
    /\ UNCHANGED <<filesFlag, includeFlag, excludeFlag, bundleErr, outputFile,
                   selection, calls, reader>>

\* Bundle: the root directory exists; validateExplicitFiles returns an error.
BundleMissingFiles ==
    /\ bundlePc = "bundle"
    /\ StatOk(absRoot)
    /\ Len(explicitFiles) > 0
    /\ validateExplicitFiles(explicitFiles) # <<>>
    /\ bundleErr' = [msg |-> "the following files specified via --files do not exist",
                     files |-> validateExplicitFiles(explicitFiles)]
    /\ bundlePc' = "error"
    /\ UNCHANGED <<filesFlag, includeFlag, excludeFlag, outputFile, args, selection,
                   calls, reader>>

\* Bundle: the explicit files exist; the default excludes are appended and
\* GetAllFilePaths is called.
BundleGetPaths ==
    /\ bundlePc = "bundle"
    /\ StatOk(absRoot)
    /\ Len(explicitFiles) > 0 => validateExplicitFiles(explicitFiles) = <<>>
    /\ excludePatterns' = appendDefaultExcludes(excludePatterns)
    /\ pc = "idle"
    /\ pc' = "preprocess"
    /\ bundlePc' = "paths"
    /\ UNCHANGED <<filesFlag, includeFlag, excludeFlag, bundleErr, outputFile,
                   includePatterns, explicitFiles, processedExcludePatterns, filePaths,
                   explicitPaths, seenPaths, walkQueue, visited, finalPaths, calls,
                   reader>>

\* Bundle: GetAllFilePaths returned an empty list.
BundleNoFiles ==
    /\ bundlePc = "paths"
    /\ pc = "done"
    /\ nothingFound(finalPaths)
    /\ bundleErr' = [msg |-> "no files found to bundle", files |-> <<>>]
    /\ bundlePc' = "error"
    /\ UNCHANGED <<filesFlag, includeFlag, excludeFlag, outputFile, args, selection,
                   calls, reader>>

\* The contents of the paths, as GetContentMapOfFiles collects them.
RECURSIVE contentsOf(_)
contentsOf(paths) ==
    IF paths = <<>> THEN {}
    ELSE Store(contentsOf(SubSeq(paths, 1, Len(paths) - 1)), readTask(paths[Len(paths)]).store)

\* The errors the goroutines for the paths send.
errorsOf(paths) ==
    { readTask(paths[i]).err : i \in 1..Len(paths) } \ {NilErr}

\* Bundle: generateBundle. The whole run of GetContentMapOfFiles is one step
\* here; its goroutines are followed one by one in the specification of the
\* reader.
GenerateBundle ==
    /\ bundlePc = "paths"
    /\ pc = "done"
    /\ ~nothingFound(finalPaths)
    /\ readPaths' = finalPaths
    /\ maxConcurrency' = DefaultMaxConcurrency
    /\ readerPc' = "done"
    /\ spawned' = Len(finalPaths)
    /\ taskPc' = [i \in 1..Len(finalPaths) |-> "done"]
    /\ fileContentMap' = contentsOf(finalPaths)
    /\ UNCHANGED <<semaphore, wg>>
    /\ IF errorsOf(finalPaths) = {}
       THEN /\ errChan' = <<>>
            /\ resultMap' = [isNil |-> FALSE, entries |-> contentsOf(finalPaths)]
            /\ resultErr' = NilErr
            /\ outputFile' = [written |-> TRUE, tree |-> finalPaths,
                              content |-> contentsOf(finalPaths)]
            /\ bundleErr' = NoError
            /\ bundlePc' = "done"
       ELSE /\ \E order \in Orders(errorsOf(finalPaths)) :
                 /\ errChan' = Tail(order)
                 /\ resultErr' = order[1]
            /\ resultMap' = NilMap
            /\ outputFile' = outputFile
            /\ bundleErr' = [msg |-> "error getting file contents", files |-> <<>>]
            /\ bundlePc' = "error"
    /\ UNCHANGED <<filesFlag, includeFlag, excludeFlag, args, selection, calls>>

NextBundle ==
    \/ RunE \/ BundleMissingFiles \/ BundleGetPaths
    \/ Preprocess \/ CollectExplicit \/ StartWalk \/ Visit \/ Return
    \/ BundleNoFiles \/ GenerateBundle

SpecBundle == InitBundle /\ [][NextBundle]_vars

----------------------------------------------------------------------------
(* GetContentMapOfFiles, goroutine by goroutine *)

\* Variant of returnOf: the map is returned whatever errChan holds.
returnPartial(ch, m) == [map |-> [isNil |-> FALSE, entries |-> m], err |-> NilErr]

\* What GetContentMapOfFiles returns after close(errChan).
returnOf(ch, m) ==
    IF Len(ch) > 0
    THEN [map |-> NilMap, err |-> Head(ch)]
    ELSE [map |-> [isNil |-> FALSE, entries |-> m], err |-> NilErr]

ReadPool ==
    << pB,                                       \* a regular file
       pE,                                       \* an empty directory
       pA,                                       \* a directory with entries
       pZZ,                                      \* missing: os.Stat fails
       pU,                                       \* os.ReadFile fails
       pUD >>                                    \* os.ReadDir fails

\* The elements of pool at the positions in S, in the order of pool.
RECURSIVE Picked(_, _, _)
Picked(pool, S, i) ==
    IF i > Len(pool) THEN <<>>
    ELSE (IF i \in S THEN <<pool[i]>> ELSE <<>>) \o Picked(pool, S, i + 1)

ReadInputs ==
    { Picked(ReadPool, S, 1) :
        S \in { T \in SUBSET (1..Len(ReadPool)) : Cardinality(T) <= MaxRead } }

InitReader ==
    /\ readPaths \in ReadInputs
    /\ maxConcurrency \in 0..MaxLimit
    /\ readerPc = "loop"
    /\ spawned = 0
    /\ taskPc = [i \in 1..Len(readPaths) |-> "new"]
    /\ semaphore = 0
    /\ wg = 0
    /\ errChan = <<>>
    /\ fileContentMap = {}
    /\ resultMap = NilMap
    /\ resultErr = NilErr
    /\ includePatterns = <<>>
    /\ excludePatterns = <<>>
    /\ explicitFiles = <<>>
    /\ Locals("idle")
    /\ NoCli

others == <<args, selection, calls, cli>>

\* One iteration of the loop: wg.Add(1); go func(p string) {...}(path)
Spawn ==
    /\ readerPc = "loop"
    /\ spawned < Len(readPaths)
    /\ wg' = wg + 1
    /\ spawned' = spawned + 1
    /\ taskPc' = [taskPc EXCEPT ![spawned + 1] = "acquire"]
    /\ UNCHANGED <<readPaths, maxConcurrency, readerPc, semaphore, errChan,
                   fileContentMap, resultMap, resultErr, others>>

\* Variant of Acquire: the send does not wait for room in the channel.
AcquireUnbounded ==
    \E i \in 1..Len(readPaths) :
        /\ taskPc[i] = "acquire"
        /\ semaphore' = semaphore + 1
        /\ taskPc' = [taskPc EXCEPT ![i] = "work"]
        /\ UNCHANGED <<readPaths, maxConcurrency, readerPc, spawned, wg, errChan,
                       fileContentMap, resultMap, resultErr, others>>

\* A goroutine: semaphore <- struct{}{}, possible while the channel has room.
Acquire ==
    \E i \in 1..Len(readPaths) :
        /\ taskPc[i] = "acquire"
        /\ semaphore < maxConcurrency
        /\ semaphore' = semaphore + 1
        /\ taskPc' = [taskPc EXCEPT ![i] = "work"]
        /\ UNCHANGED <<readPaths, maxConcurrency, readerPc, spawned, wg, errChan,
                       fileContentMap, resultMap, resultErr, others>>

\* A goroutine: os.Stat and the read succeed; the pair, if any, is stored.
TaskStores ==
    \E i \in 1..Len(readPaths) :
        /\ taskPc[i] = "work"
        /\ readTask(readPaths[i]).err = NilErr
        /\ fileContentMap' = Store(fileContentMap, readTask(readPaths[i]).store)
        /\ taskPc' = [taskPc EXCEPT ![i] = "release"]
        /\ UNCHANGED <<readPaths, maxConcurrency, readerPc, spawned, semaphore, wg,
                       errChan, resultMap, resultErr, others>>

\* A goroutine: os.Stat or the read fails; errChan <- err never blocks, the
\* channel has room for one error of every goroutine.
TaskFails ==
    \E i \in 1..Len(readPaths) :
        /\ taskPc[i] = "work"
        /\ readTask(readPaths[i]).err # NilErr
        /\ errChan' = Append(errChan, readTask(readPaths[i]).err)
        /\ taskPc' = [taskPc EXCEPT ![i] = "release"]
        /\ UNCHANGED <<readPaths, maxConcurrency, readerPc, spawned, semaphore, wg,
                       fileContentMap, resultMap, resultErr, others>>

\* A goroutine returns; its deferred calls run: <-semaphore, then wg.Done().
Release ==
    \E i \in 1..Len(readPaths) :
        /\ taskPc[i] = "release"
        /\ semaphore' = semaphore - 1
        /\ wg' = wg - 1
        /\ taskPc' = [taskPc EXCEPT ![i] = "done"]
        /\ UNCHANGED <<readPaths, maxConcurrency, readerPc, spawned, errChan,
                       fileContentMap, resultMap, resultErr, others>>

\* After the loop: wg.Wait() returns, errChan is closed, the function returns.
WaitAndReturn ==
    /\ readerPc = "loop"
    /\ spawned = Len(readPaths)
    /\ wg = 0
    /\ resultMap' = returnOf(errChan, fileContentMap).map
    /\ resultErr' = returnOf(errChan, fileContentMap).err
    /\ errChan' = IF Len(errChan) > 0 THEN Tail(errChan) ELSE errChan
    /\ readerPc' = "done"
    /\ UNCHANGED <<readPaths, maxConcurrency, spawned, taskPc, semaphore, wg,
                   fileContentMap, others>>

NextReader == Spawn \/ Acquire \/ TaskStores \/ TaskFails \/ Release \/ WaitAndReturn

SpecReader == InitReader /\ [][NextReader]_vars

\* The Go scheduler runs a goroutine whenever one can take a step: the program
\* does not stop while a step of the caller or of a started goroutine is possible.
ReaderFairness == WF_vars(NextReader)

SpecReaderLive == InitReader /\ [][NextReader]_vars /\ ReaderFairness

----------------------------------------------------------------------------
(* filterEmptyDirectories called on a list of its own, and again on what it *)
(* returned, as the tests of filter_empty_directories_test.go call it.      *)

FilterPool ==
    { pB,                                        \* "/r/b"          a file
      nB,                                        \* "b"             the same file, relative
      pBD,                                       \* "/r/bd"         a directory
      pA,                                        \* "/r/bd/a"       a directory
      pOmd,                                      \* "/r/bd/a/o.md"  a file
      pE,                                        \* "/r/e"          an empty directory
      pL,                                        \* "/r/l"          a link to a directory
      pZZ }                                      \* "/r/zz"         missing

InitFilter ==
    /\ filePaths \in SeqsUpTo(FilterPool, MaxArgs)
    /\ pc = "filter"
    /\ finalPaths = <<>>
    /\ includePatterns = <<>>
    /\ excludePatterns = <<>>
    /\ explicitFiles = <<>>
    /\ processedExcludePatterns = <<>>
    /\ explicitPaths = {}
    /\ seenPaths = {}
    /\ walkQueue = <<>>
    /\ visited = {}
    /\ callNo = 1
    /\ variant = [kind |-> "first", pattern |-> <<>>]
    /\ firstResult = <<>>
    /\ NoCli
    /\ NoReader

\* filterEmptyDirectories(filePaths): the slice of the caller holds absolute
\* paths afterwards.
Filter ==
    /\ pc = "filter"
    /\ finalPaths' = filterEmptyDirectories(filePaths)
    /\ filePaths' = absolutePaths(filePaths)
    /\ pc' = "filtered"
    /\ UNCHANGED <<args, calls, processedExcludePatterns, explicitPaths, seenPaths,
                   walkQueue, visited, cli, reader>>

\* filterEmptyDirectories(finalPaths): the function applied to its own output.
FilterAgain ==
    /\ pc = "filtered"
    /\ finalPaths' = filterEmptyDirectories(finalPaths)
    /\ pc' = "refiltered"
    /\ UNCHANGED <<args, calls, processedExcludePatterns, filePaths, explicitPaths,
                   seenPaths, walkQueue, visited, cli, reader>>

NextFilter == Filter \/ FilterAgain

SpecFilter == InitFilter /\ [][NextFilter]_vars

----------------------------------------------------------------------------
(* Vocabulary of the properties *)

Result == Range(finalPaths)
Candidates == Range(filePaths)

\* The entries below the root, as the walk can meet them.
Entries == { n \in FSNodes : HasPrefix(n.path, absRoot \o Slash) }

RelOf(path) == ToSlash(Rel(absRoot, path))

\* path lies strictly beneath dir
Beneath(path, dir) == HasPrefix(path, dir \o Slash)

MatchesExclude(rel) ==
    \E i \in 1..Len(processedExcludePatterns) : PathMatch(processedExcludePatterns[i], rel)

MatchesInclude(rel) ==
    \E i \in 1..Len(includePatterns) : PathMatch(includePatterns[i], rel)

----------------------------------------------------------------------------
(* C1: exclude precedence. A path under the root whose relative path matches an
   effective exclude pattern and an include pattern, and which is not in the
   explicit set, is not in the returned list. *)
ExcludePrecedence ==
    pc = "done" =>
        \A n \in Entries :
            ( /\ MatchesExclude(RelOf(n.path))
              /\ MatchesInclude(RelOf(n.path))
              /\ n.path \notin explicitPaths )
            => n.path \notin Result


\* relPath and its parents, up to the root.
SelfAndParents(rel) ==
    LET elems == Split(rel) IN { JoinElems(SubSeq(elems, 1, k)) : k \in 1..Len(elems) }

\* rel or one of its parents matches an effective exclude pattern.
Excluded(rel) == \E a \in SelfAndParents(rel) : MatchesExclude(a)

IsRegularFile(p) == Stat(p).kind = "file"

----------------------------------------------------------------------------
(* C2: explicit override. Every entry of explicitFiles that names an existing
   regular file is in the returned list, whatever the patterns. *)
ExplicitOverride ==
    pc = "done" =>
        \A i \in 1..Len(explicitFiles) :
            IsRegularFile(Abs(explicitFiles[i])) => Abs(explicitFiles[i]) \in Result

\* A call returned an explicit file that an exclude pattern matches (itself or a
\* parent) and that no include pattern matches.
ExplicitOverrideWitness ==
    /\ pc = "done"
    /\ \E i \in 1..Len(explicitFiles) :
          LET f == Abs(explicitFiles[i]) IN
            /\ IsRegularFile(f)
            /\ Excluded(RelOf(f))
            /\ includePatterns # <<>> /\ ~MatchesInclude(RelOf(f))
            /\ f \in Result

(* C3: no dangling directories. Every directory of the returned list is a strict
   ancestor of a regular file of the returned list. *)
NoDanglingDirectories ==
    pc = "done" =>
        \A d \in Result :
            IsDir(d) => \E f \in Result : IsRegularFile(f) /\ Beneath(f, d)

\* A call collected a directory that has entries on disk, dropped it, and kept
\* another directory.
NoDanglingDirectoriesWitness ==
    /\ pc = "done"
    /\ \E d \in Candidates \ Result : Lstat(d).kind = "dir" /\ Lstat(d).entries # <<>>
    /\ \E d \in Result : IsDir(d)

(* C4: excluded subtree. For a directory that matches an effective exclude
   pattern, a path strictly beneath it is in the returned list only if it is in
   the explicit set. *)
ExcludedSubtree ==
    pc = "done" =>
        \A d \in Entries :
            (d.kind = "dir" /\ MatchesExclude(RelOf(d.path))) =>
                \A n \in Entries :
                    (Beneath(n.path, d.path) /\ n.path \in Result)
                    => n.path \in explicitPaths

(* C5: include filter soundness. With a non-empty include list, every returned
   path that is not in the explicit set matches an include pattern. *)
IncludeFilterSoundness ==
    (pc = "done" /\ includePatterns # <<>>) =>
        \A p \in Result : p \notin explicitPaths => MatchesInclude(RelOf(p))

\* A call with include patterns returned a path found by the walk and left out
\* a visited entry that is not excluded and matches no include pattern.
IncludeFilterSoundnessWitness ==
    /\ pc = "done"
    /\ includePatterns # <<>>
    /\ Result \ explicitPaths # {}
    /\ \E n \in Entries :
          /\ n.path \in visited
          /\ ~Excluded(RelOf(n.path))
          /\ ~MatchesInclude(RelOf(n.path))
          /\ n.path \notin Result

\* A regular file, or a directory with a regular file somewhere beneath it.
IsFileOrHoldsFile(m) ==
    \/ m.kind = "file"
    \/ /\ m.kind = "dir"
       /\ \E f \in Entries : f.kind = "file" /\ Beneath(f.path, m.path)

(* C6: empty include means include all. With an empty include list every entry
   under the root that is not excluded is collected by the walk, and a call with
   three empty lists returns exactly the regular files under the root and the
   directories that have a regular file beneath them. *)
EmptyIncludeIncludesAll ==
    /\ (pc = "done" /\ includePatterns = <<>>) =>
           \A n \in Entries : ~Excluded(RelOf(n.path)) => n.path \in Candidates
    /\ (pc = "done" /\ includePatterns = <<>> /\ excludePatterns = <<>>
           /\ explicitFiles = <<>>) =>
           Result = { n.path : n \in { m \in Entries : IsFileOrHoldsFile(m) } }

\* The call with three empty lists returned: files and directories are in the
\* list, the empty directory is not.
EmptyIncludeIncludesAllWitness ==
    /\ pc = "done"
    /\ includePatterns = <<>> /\ excludePatterns = <<>> /\ explicitFiles = <<>>
    /\ pB \in Result /\ pA \in Result /\ pPgo \in Result
    /\ pE \in Candidates /\ pE \notin Result

(* C7: no duplicates. The returned list never holds the same path twice. *)
NoDuplicates ==
    pc = "done" =>
        \A i, j \in 1..Len(finalPaths) : finalPaths[i] = finalPaths[j] => i = j


(* C8: trailing-slash equivalence. A call with exclude pattern p and a call with
   p followed by '/' in its place, all else equal, return the same set. *)
TrailingSlashEquivalence ==
    (pc = "done" /\ callNo = 2 /\ variant.kind = "slash") =>
        Result = Range(firstResult)

\* Both calls returned, the pattern names a directory, and the directory and its
\* contents are in neither result while the file next to it is in both.
TrailingSlashEquivalenceWitness ==
    /\ pc = "done" /\ callNo = 2 /\ variant.kind = "slash"
    /\ variant.pattern = nBD
    /\ \E i \in 1..Len(excludePatterns) : excludePatterns[i] = nBD \o Slash
    /\ pB \in Result /\ pB \in Range(firstResult)
    /\ pBD \notin Result /\ pPgo \notin Result

\* A pattern without a separator or a glob character.
IsLiteralName(p) ==
    p # <<>> /\ \A i \in 1..Len(p) : p[i] \notin {"/", "\\", "*", "?", "[", "]", "{", "}"}

\* rel is the entry named n or lies beneath it.
NamedOrBeneath(rel, n) == rel = n \/ HasPrefix(rel, n \o Slash)

\* rel or one of its parents matches an effective pattern that comes from pattern.
ExcludedBy(pattern, rel) ==
    LET eff == preprocessExcludePatterns(absRoot, <<pattern>>)
    IN \E a \in SelfAndParents(rel) : \E i \in 1..Len(eff) : PathMatch(eff[i], a)

(* C9: name collision. A literal name in the exclude list removes no entry but
   the one it names and what lies beneath that one: an entry that no literal
   name names or holds, that no other exclude pattern excludes and that passes
   the include test stays in the result (a file always, a directory when a
   returned file lies beneath it), also when its name merely starts with an
   excluded name. *)
NameCollision ==
    pc = "done" =>
        \A n \in Entries :
            LET rel == RelOf(n.path) IN
            ( /\ \A i \in 1..Len(excludePatterns) :
                    IF IsLiteralName(excludePatterns[i])
                    THEN ~NamedOrBeneath(rel, excludePatterns[i])
                    ELSE ~ExcludedBy(excludePatterns[i], rel)
              /\ includePatterns = <<>> \/ MatchesInclude(rel) )
            => /\ n.kind = "file" => n.path \in Result
               /\ ( /\ n.kind = "dir"
                    /\ \E f \in Result : IsRegularFile(f) /\ Beneath(f, n.path) )
                  => n.path \in Result

\* The file "b" is excluded by its name and is not returned; the directory "bd"
\* next to it and the files beneath "bd" are returned.
NameCollisionWitness ==
    /\ pc = "done"
    /\ \E i \in 1..Len(excludePatterns) : excludePatterns[i] = nB
    /\ pB \notin Result
    /\ pBD \in Result /\ pA \in Result /\ pOmd \in Result /\ pPgo \in Result

(* C10: determinism. A second call with the same arguments returns the same set
   as the first, whatever order the ranges over the explicit map yield. *)
Determinism ==
    (pc = "done" /\ callNo = 2 /\ variant.kind = "same") =>
        Result = Range(firstResult)

\* Both calls returned; the explicit map has two keys, and an excluded directory
\* that holds one of them was visited and not returned.
DeterminismWitness ==
    /\ pc = "done" /\ callNo = 2 /\ variant.kind = "same"
    /\ Cardinality(explicitPaths) >= 2
    /\ \E d \in visited :
          /\ Lstat(d).kind = "dir"
          /\ d # absRoot
          /\ MatchesExclude(RelOf(d))
          /\ \E e \in explicitPaths : Beneath(e, d)
          /\ d \notin Result
    /\ Result # {}

\* A symbolic link under the root whose target is a directory.
IsLinkToDir(n) == n.kind = "symlink" /\ IsDir(n.path)

\* The entry passes the include test and neither it nor a parent is excluded.
Selectable(n) ==
    /\ ~Excluded(RelOf(n.path))
    /\ includePatterns = <<>> \/ MatchesInclude(RelOf(n.path))

(* C11: symlinked directory exclusion. A symbolic link to a directory is visited
   once and nothing is visited through it; when the link matches an effective
   exclude pattern, the link is not in the returned list and no path through it
   is, explicit files aside; the files of the link's target directory that are
   selectable by their own paths are in the list, and so is the target
   directory when it is selectable and holds a returned file. *)
SymlinkedDirectoryExclusion ==
    pc = "done" =>
        \A n \in Entries :
            IsLinkToDir(n) =>
                /\ \A v \in visited : ~Beneath(v, n.path)
                /\ MatchesExclude(RelOf(n.path)) =>
                      /\ n.path \in Result => n.path \in explicitPaths
                      /\ \A p \in Result : Beneath(p, n.path) => p \in explicitPaths
                      /\ \A m \in Entries :
                            ( /\ m.kind = "file"
                              /\ Beneath(m.path, n.target)
                              /\ Selectable(m) )
                            => m.path \in Result
                      /\ ( /\ Selectable(Lstat(n.target))
                           /\ \E f \in Result : IsRegularFile(f) /\ Beneath(f, n.target) )
                         => n.target \in Result

\* The second call was made without the entry variant.pattern of the first.
DroppedEntry(file) ==
    pc = "done" /\ callNo = 2 /\ variant.kind = "drop" /\ variant.pattern = file

(* C12: a missing explicit file is dropped. An entry of explicitFiles that names
   no existing path does not make the call fail and is not in the returned list,
   and the call returns the list it returns without that entry. *)
MissingExplicitDropped ==
    /\ (\E i \in 1..Len(explicitFiles) : ~StatOk(Abs(explicitFiles[i]))) => pc # "error"
    /\ pc = "done" =>
          \A i \in 1..Len(explicitFiles) :
              ~StatOk(Abs(explicitFiles[i])) => Abs(explicitFiles[i]) \notin Result
    /\ \A f \in ExplicitPool :
          (DroppedEntry(f) /\ ~StatOk(Abs(f))) =>
              /\ Abs(f) \notin Range(firstResult)
              /\ finalPaths = firstResult

\* The first call had the missing file and an existing one in explicitFiles and
\* returned the existing one; the second call, without the missing entry, is over.
MissingExplicitDroppedWitness ==
    /\ DroppedEntry(pZZ)
    /\ ~StatOk(pZZ)
    /\ explicitFiles # <<>>
    /\ Abs(explicitFiles[1]) \in Range(firstResult)
    /\ pZZ \notin Range(firstResult)

(* C13: directories are not explicit overrides. An entry of explicitFiles that
   names an existing directory does not put the directory in the returned list:
   when the call with the entry returns the directory, so does the call without
   the entry. *)
DirectoriesNotExplicit ==
    \A f \in ExplicitPool :
        (DroppedEntry(f) /\ IsDir(Abs(f)) /\ Abs(f) \in Range(firstResult))
        => Abs(f) \in Result

(* C14: the result stays under the root. Every path of the returned list lies
   strictly beneath the root directory, whatever explicitFiles holds. *)
ResultUnderRoot ==
    pc = "done" => \A p \in Result : Beneath(p, absRoot)

\* The paths whose contents the written bundle holds.
BundleFiles == { kv[1] : kv \in outputFile.content }

Missing(file) == ~StatOk(Abs(file))

(* C15: Bundle fails fast on a missing explicit file. When an entry of
   BundleOptions.ExplicitFiles does not exist, Bundle ends with the error that
   names the missing entries, in their order; GetAllFilePaths is not called and
   the output file is not written. *)
BundleFailsFast ==
    (bundlePc # "flags" /\ \E i \in 1..Len(explicitFiles) : Missing(explicitFiles[i])) =>
        /\ bundlePc \in {"bundle", "error"}
        /\ bundlePc = "error" =>
              bundleErr = [msg |-> "the following files specified via --files do not exist",
                           files |-> SelectSeq(explicitFiles, Missing)]
        /\ pc = "idle"
        /\ readerPc = "none"
        /\ outputFile = NoFile

\* Bundle returned the error for the one missing file of a list that also names
\* existing files.
BundleFailsFastWitness ==
    /\ bundlePc = "error"
    /\ bundleErr.files = <<nZZ>>
    /\ Len(explicitFiles) >= 2
    /\ pc = "idle"

MatchesIncludeFlag(rel) ==
    \E i \in 1..Len(includeFlag) : PathMatch(includeFlag[i], rel)

(* C16: flag combination. A bundle written by a run with --files holds the
   listed files and, of the other files under the root, exactly those that match
   an --include pattern and no exclude pattern. *)
FlagCombination ==
    (bundlePc = "done" /\ filesFlag # <<>>) =>
        BundleFiles =
            { Abs(filesFlag[i]) : i \in 1..Len(filesFlag) }
            \cup { n.path : n \in { m \in Entries :
                                      /\ m.kind = "file"
                                      /\ MatchesIncludeFlag(RelOf(m.path))
                                      /\ ~Excluded(RelOf(m.path)) } }

(* C17: an empty selection is a failure of the command. GetAllFilePaths returns
   the empty list, without an error, when the walk and the explicit files give
   nothing; Bundle then ends with the error "no files found to bundle", reads no
   content and writes no output file. *)
EmptySelectionFails ==
    /\ (pc = "done" /\ Candidates = {}) => finalPaths = <<>>
    /\ (bundlePc # "flags" /\ pc = "done" /\ finalPaths = <<>>) =>
          /\ bundlePc \in {"paths", "error"}
          /\ bundlePc = "error" =>
                bundleErr = [msg |-> "no files found to bundle", files |-> <<>>]
          /\ readerPc = "none"
          /\ outputFile = NoFile

\* A run with an --include pattern that matches nothing walked the root, got the
\* empty list and ended with the error.
EmptySelectionFailsWitness ==
    /\ bundlePc = "error"
    /\ bundleErr.msg = "no files found to bundle"
    /\ includeFlag # <<>>
    /\ pB \in visited /\ pPgo \in visited
    /\ pc = "done" /\ finalPaths = <<>>

(* C18: an empty include list selects nothing. With an empty includePatterns the
   call returns exactly the entries of explicitFiles that exist, and the empty
   list when explicitFiles is empty too. *)
EmptyIncludeSelectsNothing ==
    (pc = "done" /\ includePatterns = <<>>) =>
        Result = { Abs(explicitFiles[i]) :
                     i \in { j \in 1..Len(explicitFiles) : StatOk(Abs(explicitFiles[j])) } }

\* The goroutine for p meets no error.
Readable(p) == StatOk(p) /\ Stat(p).path \notin NoPermission

IsEmptyDir(p) == Stat(p).kind = "dir" /\ Stat(p).entries = <<>>

Returned == readerPc = "done"

(* C19: content map contents. When no goroutine fails, the returned map has a
   key for every input path that is a regular file, with the file's content,
   and for every input path that is an empty directory, with "empty directory",
   and no other key, in whatever order the goroutines ran. *)
ContentMapContents ==
    (Returned /\ \A p \in Range(readPaths) : Readable(p)) =>
        /\ ~resultMap.isNil
        /\ resultMap.entries =
              { <<p, FileData(Stat(p).path)>> : p \in { q \in Range(readPaths) : IsRegularFile(q) } }
              \cup { <<p, "empty directory">> : p \in { q \in Range(readPaths) : IsEmptyDir(q) } }

\* A call with a file, an empty directory and a directory with entries returned
\* a map with two keys.
ContentMapContentsWitness ==
    /\ Returned
    /\ readPaths = <<pB, pE, pA>>
    /\ ~resultMap.isNil
    /\ Cardinality(resultMap.entries) = 2

(* C20: no partial content map. When a goroutine fails, the call returns the nil
   map and the error of a goroutine that failed, whatever the other goroutines
   stored; when none fails, the returned error is nil. *)
NoPartialContentMap ==
    Returned =>
        IF \E p \in Range(readPaths) : ~Readable(p)
        THEN /\ resultMap = NilMap
             /\ resultErr # NilErr
             /\ resultErr.op \in {"stat", "open", "readdir"}
             /\ resultErr.path \in { p \in Range(readPaths) : ~Readable(p) }
        ELSE resultErr = NilErr

\* The call returned the nil map and an error after one goroutine had stored a
\* pair and two had failed.
NoPartialContentMapWitness ==
    /\ Returned
    /\ resultMap = NilMap /\ resultErr # NilErr
    /\ fileContentMap # {}
    /\ Len(errChan) = 1

(* C21: the content read always completes. For every path list and every
   maxConcurrency >= 0, whichever goroutines fail, every started goroutine
   finishes and GetContentMapOfFiles returns. *)
ReadCompletes ==
    <>(Returned /\ \A i \in 1..Len(readPaths) : taskPc[i] = "done")

\* GetAllFilePaths has returned an error.
Failed == pc = "error"

BadPatternMet(path) ==
    LET relPath == RelOf(path) IN
    /\ path # absRoot
    /\ path \notin seenPaths
    /\ \/ isExcludedPathErr(relPath, processedExcludePatterns)
       \/ /\ \A o \in Orders(explicitPaths) :
                LET ex == isExcludedPath(absRoot, relPath, processedExcludePatterns, o)
                IN ~ex.excluded
          /\ shouldIncludePathErr(relPath, includePatterns)

(* C22: no partial selection. When the matcher rejects a pattern during the
   walk, or the walk reports a filesystem error for an entry, GetAllFilePaths
   returns the nil path list with the error: no path collected before the
   error, seeded explicit files included, is returned. *)
NoPartialSelection ==
    /\ Failed => finalPaths = <<>>
    /\ \A path \in visited : BadPatternMet(path) => Failed

NoPartialSelectionWitness ==
    /\ Failed
    /\ \E path \in visited : BadPatternMet(path)
    /\ Range(filePaths) \cap Range([i \in 1..Len(explicitFiles) |-> Abs(explicitFiles[i])]) # {}
    /\ Range(filePaths) \ explicitPaths # {}

\* The explicit files that exist and lie strictly below the directory dir.
ExplicitBelow(dir) == { f \in explicitPaths : HasPrefix(f, dir \o Slash) }

\* A directory that matches an exclude pattern, holds an existing explicit file
\* and is not itself an explicit path.
ExcludedAncestor(n) ==
    /\ n.kind = "dir"
    /\ MatchesExclude(RelOf(n.path))
    /\ ExplicitBelow(n.path) # {}
    /\ n.path \notin explicitPaths

(* C23: excluded ancestor of an explicit file. A directory that matches an
   exclude pattern, is a strict ancestor of an existing explicit file and is not
   itself listed in explicitFiles is descended into (the walk visits it and its
   entries) but is never in the result, while the nested explicit file is. *)
ExcludedAncestorTraversed ==
    pc = "done" =>
        \A n \in Entries :
            ExcludedAncestor(n) =>
                /\ n.path \in visited
                /\ \A i \in 1..Len(n.entries) : Child(n.path, n.entries[i]) \in visited
                /\ n.path \notin Result
                /\ ExplicitBelow(n.path) \subseteq Result

ExcludedAncestorTraversedWitness ==
    /\ pc = "done"
    /\ \E n \in Entries : ExcludedAncestor(n) /\ n.entries # <<>>

(* C24: traversal pruning. During the walk an excluded directory (it or one of
   its ancestors below root matches an effective exclude pattern) is descended
   into only if the directory itself is a strict ancestor of some explicit
   path; no entry of any other excluded directory is ever visited. *)
TraversalPruning ==
    \A path \in visited :
        \A n \in Entries :
            (n.kind = "dir" /\ Beneath(path, n.path) /\ Excluded(RelOf(n.path)))
                => \E i \in 1..Len(explicitFiles) : Beneath(Abs(explicitFiles[i]), n.path)

\* The include test: no include pattern is given, or one matches rel.
PassesInclude(rel) == Len(includePatterns) = 0 \/ MatchesInclude(rel)

(* C25: selection completeness. Every regular file under root such that neither
   it nor any of its ancestors below root matches an effective exclude pattern,
   and that passes the include test, is in the result, also when its ancestor
   directories fail the include test and when sibling files were excluded
   before it in walk order. *)
SelectionCompleteness ==
    pc = "done" =>
        \A n \in Entries :
            (n.kind = "file" /\ ~Excluded(RelOf(n.path)) /\ PassesInclude(RelOf(n.path)))
                => n.path \in Result

\* p.go is returned although its directories bd and bd/a fail the include test
\* and its sibling o.md, which the walk meets first, is excluded.
SelectionCompletenessWitness ==
    /\ pc = "done"
    /\ pPgo \in Result
    /\ ~PassesInclude(RelOf(pBD)) /\ ~PassesInclude(RelOf(pA))
    /\ MatchesExclude(RelOf(pOmd))
    /\ pOmd \in visited /\ pOmd \notin Result

\* pattern without the '/' and '\' characters at its end.
Trimmed(pattern) ==
    LET seps == {"/", "\\"}
        k == CHOOSE k \in 0..Len(pattern) :
                 /\ k = 0 \/ pattern[k] \notin seps
                 /\ \A j \in (k + 1)..Len(pattern) : pattern[j] \in seps
    IN SubSeq(pattern, 1, k)

\* The effective patterns one input pattern stands for.
EffectiveOf(pattern) ==
    IF pattern = <<>> THEN <<>>
    ELSE IF Stat(Join(absRoot, Trimmed(pattern))).kind = "dir"
         THEN <<Trimmed(pattern), Trimmed(pattern) \o <<"/", "*", "*">> >>
         ELSE <<Trimmed(pattern)>>

RECURSIVE EffectiveOfAll(_)
EffectiveOfAll(patterns) ==
    IF patterns = <<>> THEN <<>>
    ELSE EffectiveOf(Head(patterns)) \o EffectiveOfAll(Tail(patterns))

(* C26: pattern preprocessing. preprocessExcludePatterns maps each input
   pattern, in input order, to nothing when it is empty and otherwise to the
   pattern without its trailing '/' and '\' characters, followed by that
   trimmed pattern plus "/**" exactly when root joined with it is an existing
   directory; nothing else is produced, and no pattern causes an error. *)
PatternPreprocessing ==
    /\ pc # "preprocess" => processedExcludePatterns = EffectiveOfAll(excludePatterns)
    /\ ~Failed

\* An empty pattern, a directory with a trailing separator and a missing path
\* were preprocessed to three effective patterns.
PatternPreprocessingWitness ==
    /\ pc = "explicit"
    /\ <<>> \in Range(excludePatterns)
    /\ \E i \in 1..Len(excludePatterns) :
          /\ excludePatterns[i] # Trimmed(excludePatterns[i])
          /\ Trimmed(excludePatterns[i]) # <<>>
          /\ IsDir(Join(absRoot, Trimmed(excludePatterns[i])))
    /\ \E i \in 1..Len(excludePatterns) :
          excludePatterns[i] # <<>> /\ ~StatOk(Join(absRoot, Trimmed(excludePatterns[i])))
    /\ Len(processedExcludePatterns) = 3

\* The goroutines that have sent on the semaphore and not yet received from it:
\* they are between os.Stat and the return of the function literal.
Holding == { i \in 1..Len(readPaths) : taskPc[i] \in {"work", "release"} }

(* C27: bounded read concurrency. In every interleaving the number of
   goroutines that have acquired the semaphore and not yet released it never
   exceeds maxConcurrency, and every goroutine releases its slot exactly once,
   after a success as after an error: the slots taken are the slots of the
   goroutines at work, none is left when all goroutines are done. *)
BoundedReadConcurrency ==
    /\ Cardinality(Holding) <= maxConcurrency
    /\ semaphore = Cardinality(Holding)
    /\ (\A i \in 1..Len(readPaths) : taskPc[i] = "done") => semaphore = 0

\* Every slot is taken while a goroutine waits for one, after a goroutine that
\* failed has given its slot back.
BoundedReadConcurrencyWitness ==
    /\ maxConcurrency >= 1
    /\ semaphore = maxConcurrency
    /\ \E i \in 1..Len(readPaths) : taskPc[i] = "acquire"
    /\ \E i \in 1..Len(readPaths) : taskPc[i] = "done" /\ ~Readable(readPaths[i])

(* C28: access errors on explicit files surface. If os.Stat of an explicitFiles
   entry fails with an error other than non-existence (permission denied),
   GetAllFilePaths returns an error: it does not return a path list after
   silently dropping the entry. *)
AccessErrorsSurface ==
    pc = "done" =>
        \A i \in 1..Len(explicitFiles) : StatErr(Abs(explicitFiles[i])) \in {"nil", "noent"}

(* C29: malformed patterns are always reported. If includePatterns or
   excludePatterns holds a pattern the matcher rejects, GetAllFilePaths returns
   an error and no path list, wherever the pattern stands in its list and
   whichever entries the walk visits. *)
MalformedReported ==
    pc = "done" =>
        /\ \A i \in 1..Len(includePatterns) : ValidatePattern(includePatterns[i])
        /\ \A i \in 1..Len(excludePatterns) : ValidatePattern(excludePatterns[i])

\* out is the list in with some entries deleted, each of them one that os.Stat
\* reports as a directory: the order is kept and no path is added.
OnlyDirectoriesDeleted(in, out) ==
    \E keep \in SUBSET (1..Len(in)) :
        /\ out = Picked(in, keep, 1)
        /\ \A i \in (1..Len(in)) \ keep : IsDir(Abs(in[i]))

(* C30, as stated: the pruner only deletes directories. The output of
   filterEmptyDirectories is its input list with some directory entries deleted
   and nothing else changed (every non-directory entry and every entry that
   cannot be stat-ed is kept, relative order is preserved, no path is added),
   and applying it to its own output returns that output unchanged. *)
PrunerOnlyDeletes ==
    [][ /\ Filter => OnlyDirectoriesDeleted(filePaths, finalPaths')
        /\ FilterAgain => finalPaths' = finalPaths ]_vars

(* C30, amended: the output of filterEmptyDirectories is its input list, every
   entry replaced by its absolute path, with some directory entries deleted and
   nothing else changed; applying it to its own output returns that output
   unchanged. *)
PrunerOnlyDeletesAbsolute ==
    [][ /\ Filter => OnlyDirectoriesDeleted(absolutePaths(filePaths), finalPaths')
        /\ FilterAgain => finalPaths' = finalPaths ]_vars

\* The function was applied twice to a list with a file, a missing path and a
\* directory that holds no listed file: the directory is gone, the missing path
\* and the file are kept.
PrunerOnlyDeletesAbsoluteWitness ==
    /\ pc = "refiltered"
    /\ Len(finalPaths) = 2
    /\ Len(filePaths) = 3
    /\ pZZ \in Range(finalPaths)
    /\ pB \in Range(finalPaths)
    /\ \E i \in 1..Len(filePaths) : IsDir(filePaths[i])

====
